---- MODULE Spec2Model ----
(***************************************************************************)
(* Model of the incremental ETL of rn_refresh_datamarts_hourly             *)
(* (src/etl_incremental.py, class IncrementalETL).                         *)
(*                                                                         *)
(* The raw store rn_registro_casos_transi is an append-only set of         *)
(* snapshot rows.  The two history tables are bags of transition records   *)
(* (to_sql(if_exists="append") never deduplicates), the two dimension      *)
(* tables are bags of summary rows.  IncrementalETL.run is cut at every    *)
(* database commit: history append, dimension DELETE, dimension INSERT,    *)
(* for the parent branch and then for the child branch.                    *)
(***************************************************************************)
EXTENDS Integers, FiniteSets, Sequences, Bags, TLC

(***************************************************************************)
(* Bounds of the model.                                                    *)
(***************************************************************************)
\* number of snapshot instants the upstream collaborator can write
MaxT == 3
\* a run starts only while no history record has this many copies
MaxCopies == 3

(***************************************************************************)
(* Values.                                                                 *)
(***************************************************************************)
\* SQL NULL / None / NaN in a text column
NULL == "NULL"
\* pandas NaT / SQL NULL in fecha_registro: max() of an empty column
NaT == -1
\* the removed sentinel
Suprimido == "Folio suprimido"
\* folio_hijo of a raw row that carries no child
SinHijo == ""

T_PADRE_HIST == "dm_rn_fechas_folio_padre"
T_HIJO_HIST == "dm_rn_fechas_folio_hijo"
T_PADRE_DIM == "dm_rn_folio_padre"
T_HIJO_DIM == "dm_rn_folio_hijo"
AllTables == {T_PADRE_HIST, T_HIJO_HIST, T_PADRE_DIM, T_HIJO_DIM}

(***************************************************************************)
(* The entities the upstream collaborator can list in a snapshot: one      *)
(* entry per (client, parent, child) link with its static attributes.      *)
(* p1 was assigned before tracking started, p2 after it.                   *)
(***************************************************************************)
Catalog ==
  { [cliente |-> "c1", folio_padre |-> "p1", folio_hijo |-> "h1",
     fecha_asignacion |-> 0, url_ficha |-> "ficha/p1", ppa_grd |-> "GRD"],
    [cliente |-> "c1", folio_padre |-> "p2", folio_hijo |-> "h2",
     fecha_asignacion |-> 2, url_ficha |-> "ficha/p2", ppa_grd |-> "PPA"],
    [cliente |-> "c1", folio_padre |-> "p2", folio_hijo |-> SinHijo,
     fecha_asignacion |-> 2, url_ficha |-> "ficha/p2", ppa_grd |-> NULL] }

\* the statuses the source can report for a parent / for a child
EstadosPadre(folio) == IF folio = "p1" THEN {"Asignado", "Aceptado"} ELSE {"Asignado"}
EstadosHijo(folio) ==
  IF folio = SinHijo THEN {NULL}
  ELSE IF folio = "h1" THEN {"Aceptado", "Codificado"} ELSE {"Aceptado"}

\* url_ficha values flagged as the "already coded" duplicate variant
UrlsCodificado == {"ficha/codificado"}

(***************************************************************************)
(* Raw rows and snapshots.                                                 *)
(***************************************************************************)
RawRow(e, ep, eh, t) ==
  [cliente |-> e.cliente, folio_padre |-> e.folio_padre, folio_hijo |-> e.folio_hijo,
   estado_padre |-> ep, estado_hijo |-> eh, fecha_registro |-> t,
   fecha_asignacion |-> e.fecha_asignacion, url_ficha |-> e.url_ficha,
   ppa_grd |-> e.ppa_grd]

RawRowsAt(t) ==
  UNION { { RawRow(e, ep, eh, t) : ep \in EstadosPadre(e.folio_padre),
                                   eh \in EstadosHijo(e.folio_hijo) } : e \in Catalog }

\* group_cols and state_col of the two entity types, and the columns run
\* projects the batch on
GC_PADRE == <<"cliente", "folio_padre">>
GC_HIJO == <<"cliente", "folio_hijo">>
GC_HIJO3 == <<"cliente", "folio_padre", "folio_hijo">>
padre_cols == {"cliente", "folio_padre", "fecha_registro", "estado_padre"}
hijo_cols == {"cliente", "folio_padre", "folio_hijo", "ppa_grd", "fecha_registro",
              "estado_padre", "estado_hijo"}

\* the value of a row on the columns group_cols
Key(r, group_cols) == [i \in 1..Len(group_cols) |-> r[group_cols[i]]]
Project(r, cols) == [c \in cols |-> r[c]]

PadreKey(r) == Key(r, GC_PADRE)
HijoKey(r) == Key(r, GC_HIJO)
TieneHijo(r) == r.folio_hijo \notin {SinHijo, NULL}

\* A snapshot is a full listing of the active entities at one instant: a
\* parent is listed with one status, either on one row per child or on a
\* single row without child.
EsSnapshot(S) ==
  /\ S # {}
  /\ \A r, s \in S :
        PadreKey(r) = PadreKey(s) =>
          /\ r.estado_padre = s.estado_padre
          /\ (r.folio_hijo = s.folio_hijo => r = s)
          /\ (r # s => TieneHijo(r) /\ TieneHijo(s))

Snapshots(t) == { S \in SUBSET RawRowsAt(t) : EsSnapshot(S) }

VARIABLES
  raw,              \* rn_registro_casos_transi: set of raw snapshot rows
  tables,           \* the derived tables that exist in the database
  histPadre,        \* dm_rn_fechas_folio_padre: bag of parent transition records
  histHijo,         \* dm_rn_fechas_folio_hijo: bag of child transition records
  dimPadre,         \* dm_rn_folio_padre: bag of parent dimension rows
  dimHijo,          \* dm_rn_folio_hijo: bag of child dimension rows
  pc,               \* position of the run in progress, "idle" between runs
  df_new,           \* the batch extracted by the run in progress
  affected_folios,  \* argument of update_dimensions_padre in progress
  affected_hijos,   \* argument of update_dimensions_hijo in progress
  df_final,         \* rows computed by the rebuild in progress, not yet inserted
  outcome,          \* how the last run ended
  despues,          \* the four tables as the last completed run left them
  seguidas,         \* completed runs since the raw store last grew
  caida,            \* where a run was killed, what it had appended, runs completed since
  prestaciones      \* rn_detalle_casos_prestaciones: set of service-detail rows

vars == <<raw, tables, histPadre, histHijo, dimPadre, dimHijo, pc, df_new,
          affected_folios, affected_hijos, df_final, outcome, despues, seguidas,
          caida, prestaciones>>

(***************************************************************************)
(* Helpers on timestamps and bags.                                         *)
(***************************************************************************)
None == NaT

MaxOf(S) == CHOOSE x \in S : \A y \in S : y <= x
MinOf(S) == CHOOSE x \in S : \A y \in S : x <= y

\* position of a timestamp in an ascending pandas sort (NaT last), which is
\* also its position in PostgreSQL's ORDER BY ... DESC read backwards
\* (NULLS FIRST)
SortKey(t) == IF t = NaT THEN MaxT + 1 ELSE t

\* max() / min() of a pandas datetime column: NaT is skipped, NaT if nothing is left
ColMax(S) == IF S \ {NaT} = {} THEN NaT ELSE MaxOf(S \ {NaT})
ColMin(S) == IF S \ {NaT} = {} THEN NaT ELSE MinOf(S \ {NaT})

Rows(b) == BagToSet(b)
Copies(r, b) == CopiesIn(r, b)

\* the rows S of bag b, with the multiplicity they have in b
RECURSIVE BagOfSet(_, _)
BagOfSet(S, b) ==
  IF S = {} THEN EmptyBag
  ELSE LET r == CHOOSE x \in S : TRUE
       IN (r :> Copies(r, b)) @@ BagOfSet(S \ {r}, b)

(***************************************************************************)
(* Queries on the persisted state.                                         *)
(***************************************************************************)
\* get_max_date: None when the table is missing or holds no timestamp
GetMaxDate(table_name, hist) ==
  IF table_name \notin tables THEN None
  ELSE ColMax({r.fecha_registro : r \in Rows(hist)})

\* an extraction that takes the rows at the watermark again
ExtractFromWatermark(start_date) ==
  IF start_date # None THEN {r \in raw : r.fecha_registro >= start_date}
  ELSE raw

\* extract_new_data: rows strictly newer than the watermark, all rows on None
ExtractNewData(start_date) ==
  IF start_date # None THEN {r \in raw : r.fecha_registro > start_date}
  ELSE raw

\* one element out of each set of SS, in every possible way
RECURSIVE PickOne(_)
PickOne(SS) ==
  IF SS = {} THEN {{}}
  ELSE LET A == CHOOSE X \in SS : TRUE
       IN { S \cup {r} : S \in PickOne(SS \ {A}), r \in A }

\* SELECT DISTINCT ON (group_cols) * ... ORDER BY group_cols, fecha_registro DESC:
\* per key one row of greatest timestamp (NULL first); which one among equal
\* timestamps is left to the database.  The set of possible results.
TopRows(rows, group_cols, k) ==
  { r \in rows : /\ Key(r, group_cols) = k
                 /\ \A q \in rows : Key(q, group_cols) = k =>
                      SortKey(q.fecha_registro) <= SortKey(r.fecha_registro) }

DistinctOn(rows, group_cols) ==
  PickOne({ TopRows(rows, group_cols, Key(r, group_cols)) : r \in rows })

\* get_latest_state_from_db: an empty frame when the table is missing
GetLatestStateFromDb(table_name, hist, group_cols) ==
  IF table_name \notin tables THEN {{}}
  ELSE DistinctOn(Rows(hist), group_cols)

\* a detector that compares every new row with the persisted last state of
\* its key instead of the row before it
ProcessAgainstState(new_rows, df_db_state, group_cols, state_col) ==
  SetToBag({ n \in new_rows :
               \A d \in df_db_state :
                  Key(d, group_cols) = Key(n, group_cols) => d[state_col] # n[state_col] })

(***************************************************************************)
(* process_status_changes.  combined = concat([df_db_state, df_new]) sorted *)
(* by group_cols + fecha_registro with a stable sort, so a persisted row    *)
(* precedes a new row of equal key and timestamp; a row is kept when its    *)
(* status differs from the previous row of its group (or it has none) and   *)
(* its timestamp is >= the least timestamp of df_new.  The result is a bag  *)
(* of rows.                                                                  *)
(***************************************************************************)
ProcessStatusChanges(new_rows, df_db_state, group_cols, state_col) ==
  LET combined == { [origin |-> 0, row |-> r] : r \in df_db_state }
                    \cup { [origin |-> 1, row |-> r] : r \in new_rows }
      Rank(e) == 2 * SortKey(e.row.fecha_registro) + e.origin
      Before(e) == { p \in combined : /\ Key(p.row, group_cols) = Key(e.row, group_cols)
                                      /\ Rank(p) < Rank(e) }
      Changed(e) ==
        \/ Before(e) = {}
        \/ LET prev == CHOOSE p \in Before(e) : \A q \in Before(e) : Rank(q) <= Rank(p)
           IN e.row[state_col] # prev.row[state_col]
      min_new_date == ColMin({ r.fecha_registro : r \in new_rows })
      Kept(e) == /\ Changed(e)
                 /\ e.row.fecha_registro # NaT
                 /\ min_new_date # NaT
                 /\ e.row.fecha_registro >= min_new_date
  IN SetToBag({ e.row : e \in { x \in combined : x.origin = 0 /\ Kept(x) } })
     (+) SetToBag({ e.row : e \in { x \in combined : x.origin = 1 /\ Kept(x) } })

(***************************************************************************)
(* detect_suprimidos, after its query: current_db_state is the result of   *)
(* the DISTINCT ON query on the history table.                              *)
(***************************************************************************)
DetectSuprimidos(df_batch_snapshot, current_db_state, group_cols, state_col) ==
  LET active_db == { r \in current_db_state : r[state_col] # Suprimido }
      present == { Key(r, group_cols) : r \in df_batch_snapshot }
      missing == { r \in active_db : Key(r, group_cols) \notin present }
      snapshot_date == ColMax({ r.fecha_registro : r \in df_batch_snapshot })
      cols == { group_cols[i] : i \in 1..Len(group_cols) } \cup {state_col, "fecha_registro"}
  IN { [c \in cols |-> IF c = state_col THEN Suprimido
                       ELSE IF c = "fecha_registro" THEN snapshot_date
                       ELSE r[c]] : r \in missing }

(***************************************************************************)
(* update_dimensions_padre: the rows it computes (df_final).  The empty    *)
(* set stands for every path on which it deletes and inserts nothing.      *)
(* The descriptive columns (patient, intervention, info general) are       *)
(* copied through and left out.                                            *)
(***************************************************************************)
\* a list of non-accepted statuses that forgets "Asignado"
non_accepted_sin_asignado ==
  {Suprimido, "SIN Prestador", "Rechazo paciente sin consulta",
   "No acepta tratamiento"}

non_accepted_states ==
  {"Asignado", Suprimido, "SIN Prestador", "Rechazo paciente sin consulta",
   "No acepta tratamiento"}

static_cols == {"cliente", "folio_padre", "fecha_asignacion", "url_ficha"}

\* get_static_client_start_dates: the client's earliest snapshot timestamp
FechaPrimerRegistro(cliente) ==
  ColMin({ r.fecha_registro : r \in { x \in raw : x.cliente = cliente } })

\* timestamp of the earliest row of hist for the key of s, NaT (null) if none
FirstFecha(hist, s) ==
  ColMin({ h.fecha_registro : h \in { x \in hist : PadreKey(x) = PadreKey(s) } })

DimPadreRow(s, tipo, aceptada, df_history) ==
  LET mine == { h \in df_history : PadreKey(h) = PadreKey(s) }
      last == CHOOSE h \in mine : \A q \in mine :
                SortKey(q.fecha_registro) <= SortKey(h.fecha_registro)
  IN [cliente |-> s.cliente, folio_padre |-> s.folio_padre,
      fecha_asignacion |-> s.fecha_asignacion, url_ficha |-> s.url_ficha,
      tipo_seguimiento |-> tipo, fecha_asignacion_aceptada |-> aceptada,
      ultimo_estado_folio_padre |-> IF mine = {} THEN NULL ELSE last.estado_padre,
      fecha_ultimo_estado_folio_padre |->
        IF mine = {} THEN NaT ELSE ColMax({ h.fecha_registro : h \in mine })]

\* the possible results of query_static: one latest raw row per parent key
QueryStatic(folios) ==
  DistinctOn({ r \in raw : r.folio_padre \in folios }, GC_PADRE)

UpdateDimensionsPadreRows(folios, latest) ==
  LET df_history == { r \in Rows(histPadre) : r.folio_padre \in folios }
      df_static == { s \in { Project(r, static_cols) : r \in latest } :
                       s.url_ficha \notin UrlsCodificado }
      df_current == { s \in df_static :
                        s.fecha_asignacion >= FechaPrimerRegistro(s.cliente) }
      df_legacy == { s \in df_static :
                       s.fecha_asignacion < FechaPrimerRegistro(s.cliente) }
      hist_curr == { h \in df_history :
                       h.folio_padre \in { s.folio_padre : s \in df_current } }
      valid_states == { h \in hist_curr : h.estado_padre \notin non_accepted_states }
      hist_leg == { h \in df_history :
                      h.folio_padre \in { s.folio_padre : s \in df_legacy } }
      has_asignado == { h.folio_padre : h \in { x \in hist_leg : x.estado_padre = "Asignado" } }
      first_non_asignado == { h \in hist_leg : h.estado_padre # "Asignado" }
  IN IF df_history = {} \/ latest = {} THEN {}
     ELSE { DimPadreRow(s, "current", FirstFecha(valid_states, s), df_history) :
              s \in df_current }
          \cup
          { DimPadreRow(s, "legacy",
                        IF s.folio_padre \in has_asignado
                          THEN FirstFecha(first_non_asignado, s)
                          ELSE s.fecha_asignacion,
                        df_history) : s \in df_legacy }

(***************************************************************************)
(* update_dimensions_hijo: the rows it computes (df_base), a bag because   *)
(* the left join on the parent dimension repeats a child row once per      *)
(* matching parent row.  keys are rows of (cliente, folio_padre,           *)
(* folio_hijo); folio_padre is NULL on the keys of inferred removals.      *)
(* The joined prestaciones columns are left out: rn_detalle_casos_-        *)
(* prestaciones is empty wherever run is modelled, and on an empty result  *)
(* df_base gets neither descripcion nor grd.                               *)
(***************************************************************************)
base_cols == {"cliente", "folio_padre", "folio_hijo", "ppa_grd", "url_ficha"}

RECURSIVE SumCopies(_, _)
SumCopies(S, b) ==
  IF S = {} THEN 0
  ELSE LET r == CHOOSE x \in S : TRUE IN Copies(r, b) + SumCopies(S \ {r}, b)

\* the parent dimension rows the join reads for base row b
PadreInfo(b, folio_padres) ==
  IF T_PADRE_DIM \notin tables THEN {}
  ELSE { d \in Rows(dimPadre) : /\ d.folio_padre \in folio_padres
                                /\ d.cliente = b.cliente
                                /\ d.folio_padre = b.folio_padre }

DimHijoRow(b, tipo, df_hist_hijo) ==
  LET mine == { h \in df_hist_hijo : Key(h, GC_HIJO3) = Key(b, GC_HIJO3) }
      last == CHOOSE h \in mine : \A q \in mine :
                SortKey(q.fecha_registro) <= SortKey(h.fecha_registro)
      first == CHOOSE h \in mine : \A q \in mine :
                 SortKey(h.fecha_registro) <= SortKey(q.fecha_registro)
  IN [cliente |-> b.cliente, folio_padre |-> b.folio_padre, folio_hijo |-> b.folio_hijo,
      ppa_grd |-> b.ppa_grd, url_ficha |-> b.url_ficha, tipo_seguimiento |-> tipo,
      ultimo_estado_folio_hijo |-> IF mine = {} THEN NULL ELSE last.estado_hijo,
      fecha_ultimo_estado_folio_hijo |->
        IF mine = {} THEN NaT ELSE ColMax({ h.fecha_registro : h \in mine }),
      primer_estado_folio_hijo |-> IF mine = {} THEN NULL ELSE first.estado_hijo,
      fecha_primer_estado_folio_hijo |->
        IF mine = {} THEN NaT ELSE ColMin({ h.fecha_registro : h \in mine })]

UpdateDimensionsHijoRows(keys) ==
  LET placeholders_hijo == { k.folio_hijo : k \in keys }
      sel == { r \in raw : r.folio_hijo \in placeholders_hijo }
      latest == UNION { TopRows(sel, GC_HIJO3, Key(r, GC_HIJO3)) : r \in sel }
      df_base == { Project(r, base_cols) : r \in latest }
      folio_padres == { k.folio_padre : k \in keys }
      df_hist_hijo == IF T_HIJO_HIST \notin tables THEN {}
                      ELSE { h \in Rows(histHijo) : h.folio_hijo \in placeholders_hijo }
      Tipos(b) == IF PadreInfo(b, folio_padres) = {} THEN {NULL}
                  ELSE { d.tipo_seguimiento : d \in PadreInfo(b, folio_padres) }
      out == { <<b, t>> : b \in df_base, t \in { x \in {NULL, "current", "legacy"} : TRUE } }
      pairs == { x \in out : x[2] \in Tipos(x[1]) }
      N(x) == IF PadreInfo(x[1], folio_padres) = {} THEN 1
              ELSE SumCopies({ d \in PadreInfo(x[1], folio_padres) :
                                 d.tipo_seguimiento = x[2] }, dimPadre)
  IN [ r \in { DimHijoRow(x[1], x[2], df_hist_hijo) : x \in pairs } |->
         N(CHOOSE x \in pairs : DimHijoRow(x[1], x[2], df_hist_hijo) = r) ]

(***************************************************************************)
(* State machine.                                                          *)
(***************************************************************************)
Tablas == [tables |-> tables, histPadre |-> histPadre, histHijo |-> histHijo,
           dimPadre |-> dimPadre, dimHijo |-> dimHijo]

\* The tables a deployment can start with: all provisioned, none (a fresh
\* database), the child history missing, or the two dimensions missing.
InitialTables ==
  { AllTables, {}, AllTables \ {T_HIJO_HIST}, {T_PADRE_HIST, T_HIJO_HIST} }

\* no run has been killed
SinCaida == [donde |-> "none", padres |-> {}, hijos |-> {}, runs |-> 0]

Init ==
  /\ raw = {}
  /\ tables \in InitialTables
  /\ histPadre = EmptyBag
  /\ histHijo = EmptyBag
  /\ dimPadre = EmptyBag
  /\ dimHijo = EmptyBag
  /\ pc = "idle"
  /\ df_new = {}
  /\ affected_folios = {}
  /\ affected_hijos = {}
  /\ df_final = EmptyBag
  /\ outcome = "none"
  /\ despues = [tables |-> tables, histPadre |-> EmptyBag, histHijo |-> EmptyBag,
                dimPadre |-> EmptyBag, dimHijo |-> EmptyBag]
  /\ seguidas = 0
  /\ caida = SinCaida
  /\ prestaciones = {}

\* the next snapshot instant
NextT == IF raw = {} THEN 1 ELSE MaxOf({ r.fecha_registro : r \in raw }) + 1

\* The upstream collaborator appends one snapshot to the raw store.
AddSnapshot ==
  /\ pc = "idle"
  /\ NextT <= MaxT
  /\ \E S \in Snapshots(NextT) : raw' = raw \cup S
  /\ seguidas' = 0
  /\ UNCHANGED <<tables, histPadre, histHijo, dimPadre, dimHijo, pc, df_new,
                 affected_folios, affected_hijos, df_final, outcome, despues,
                 caida, prestaciones>>

\* The database operations of run whose failure is modelled: the reads of
\* persisted state and the two history appends.  caida.donde names the one
\* that fails in the current run (at most one per behaviour).
Consultas == {"max_date", "state_padre", "suprimidos_padre",
              "state_hijo", "suprimidos_hijo"}
Escrituras == {"append_padre", "append_hijo"}
Fails(q) == caida.donde = q /\ caida.runs = 0

\* The run moves on to its next commit point.
Goto(next) ==
  /\ pc' = next
  /\ UNCHANGED <<outcome, despues, seguidas, caida, prestaciones>>

\* The run ends: "ok" and "noop" are its two normal returns, "raised" is the
\* re-raise of run's except clause.
Finish(how) ==
  /\ pc' = "idle"
  /\ outcome' = how
  /\ df_new' = {}
  /\ affected_folios' = {}
  /\ affected_hijos' = {}
  /\ df_final' = EmptyBag
  /\ IF how \in {"ok", "noop"}
       THEN /\ despues' = [tables |-> tables', histPadre |-> histPadre',
                           histHijo |-> histHijo', dimPadre |-> dimPadre',
                           dimHijo |-> dimHijo']
            /\ seguidas' = IF seguidas < 2 THEN seguidas + 1 ELSE 2
       ELSE /\ despues' = despues
            /\ seguidas' = 0
  /\ caida' = IF \/ (how \in {"ok", "noop"} /\ caida.donde # "none")
                   \/ caida.donde \in Consultas \cup Escrituras
                THEN [caida EXCEPT !.runs = 1]
                ELSE caida
  /\ prestaciones' = prestaciones

NoCopiesLeft ==
  \E r \in Rows(histPadre) \cup Rows(histHijo) :
     Copies(r, histPadre) >= MaxCopies \/ Copies(r, histHijo) >= MaxCopies

\* run, steps 1 to 3 up to the append to dm_rn_fechas_folio_padre
RunPadreHistorial ==
  /\ pc = "idle"
  /\ ~NoCopiesLeft
  /\ LET max_date == GetMaxDate(T_PADRE_HIST, histPadre)
         batch == ExtractNewData(max_date)
         latest_ts == ColMax({ r.fecha_registro : r \in batch })
         latest_snapshot == { r \in batch : r.fecha_registro = latest_ts }
     IN IF Fails("max_date")
          THEN \* get_max_date logs the error and raises
               /\ UNCHANGED <<tables, histPadre, histHijo, dimPadre, dimHijo>>
               /\ Finish("raised")
        ELSE IF batch = {}
          THEN /\ UNCHANGED <<tables, histPadre, histHijo, dimPadre, dimHijo>>
               /\ Finish("noop")
        ELSE IF T_PADRE_HIST \notin tables \/ Fails("suprimidos_padre")
          THEN \* the query of detect_suprimidos fails
               /\ UNCHANGED <<tables, histPadre, histHijo, dimPadre, dimHijo>>
               /\ Finish("raised")
        ELSE \E df_state_padre \in
                  IF Fails("state_padre")
                    THEN \* get_latest_state_from_db logs the error and returns
                         \* an empty frame
                         {{}}
                    ELSE GetLatestStateFromDb(T_PADRE_HIST, histPadre, GC_PADRE),
                current_db_state \in DistinctOn(Rows(histPadre), GC_PADRE) :
               LET df_suprimidos_padre ==
                     DetectSuprimidos(latest_snapshot, current_db_state,
                                      GC_PADRE, "estado_padre")
                   df_changes_padre ==
                     ProcessStatusChanges({ Project(r, padre_cols) : r \in batch },
                                          df_state_padre, GC_PADRE, "estado_padre")
                     (+) SetToBag(df_suprimidos_padre)
               IN IF Rows(df_changes_padre) # {} /\ Fails("append_padre")
                    THEN \* to_sql raises, nothing is between it and run's except
                         /\ UNCHANGED <<tables, histPadre, histHijo, dimPadre, dimHijo>>
                         /\ Finish("raised")
                  ELSE
                  /\ df_new' = batch
                  /\ df_final' = EmptyBag
                  /\ affected_hijos' = {}
                  /\ UNCHANGED <<tables, histHijo, dimPadre, dimHijo>>
                  /\ IF Rows(df_changes_padre) = {}
                       THEN /\ histPadre' = histPadre
                            /\ affected_folios' = {}
                            /\ Goto("hijo")
                       ELSE /\ histPadre' = histPadre (+) df_changes_padre
                            /\ affected_folios' =
                                 { r.folio_padre : r \in batch }
                                 \cup { r.folio_padre : r \in df_suprimidos_padre }
                            /\ Goto("padre_dim")
  /\ raw' = raw

\* a rebuild that commits its DELETE and leaves the insert of the computed
\* rows pending while the run goes on to the child branch
UpdateDimensionsPadreDiferido ==
  /\ pc = "padre_dim"
  /\ \E latest \in QueryStatic(affected_folios) :
     LET rows == UpdateDimensionsPadreRows(affected_folios, latest)
     IN /\ dimPadre' =
             IF T_PADRE_DIM \in tables /\ rows # {}
               THEN BagOfSet({ d \in Rows(dimPadre) :
                                 d.folio_padre \notin affected_folios }, dimPadre)
               ELSE dimPadre
        /\ df_final' = SetToBag(rows)
        /\ Goto("hijo")
  /\ UNCHANGED <<raw, tables, histPadre, histHijo, dimHijo, df_new,
                 affected_folios, affected_hijos>>

\* update_dimensions_padre up to the commit of its DELETE
UpdateDimensionsPadreDelete ==
  /\ pc = "padre_dim"
  /\ \E latest \in QueryStatic(affected_folios) :
     LET rows == UpdateDimensionsPadreRows(affected_folios, latest)
     IN IF rows = {}
          THEN /\ UNCHANGED <<dimPadre, df_final>>
               /\ Goto("hijo")
          ELSE /\ dimPadre' =
                    IF T_PADRE_DIM \in tables
                      THEN BagOfSet({ d \in Rows(dimPadre) :
                                        d.folio_padre \notin affected_folios }, dimPadre)
                      ELSE dimPadre
               /\ df_final' = SetToBag(rows)
               /\ Goto("padre_insert")
  /\ UNCHANGED <<raw, tables, histPadre, histHijo, dimHijo, df_new,
                 affected_folios, affected_hijos>>

\* update_dimensions_padre: df_final.to_sql(..., if_exists="append")
UpdateDimensionsPadreInsert ==
  /\ pc = "padre_insert"
  /\ dimPadre' = dimPadre (+) df_final
  /\ tables' = tables \cup {T_PADRE_DIM}
  /\ df_final' = EmptyBag
  /\ Goto("hijo")
  /\ UNCHANGED <<raw, histPadre, histHijo, dimHijo, df_new,
                 affected_folios, affected_hijos>>

\* the left merge of the inferred child removals with full_state on
\* (cliente, folio_hijo)
SuprimidosHijoFull(df_suprimidos_hijo, full_state) ==
  LET Match(s) == { f \in full_state : HijoKey(f) = HijoKey(s) }
      Row(s, padre, grd, estado) ==
        [cliente |-> s.cliente, folio_hijo |-> s.folio_hijo,
         estado_hijo |-> s.estado_hijo, fecha_registro |-> s.fecha_registro,
         folio_padre |-> padre, ppa_grd |-> grd, estado_padre |-> estado]
  IN UNION { IF Match(s) = {} THEN { Row(s, NULL, NULL, NULL) }
             ELSE { Row(s, f.folio_padre, f.ppa_grd, f.estado_padre) : f \in Match(s) } :
               s \in df_suprimidos_hijo }

\* run, step 4 up to the append to dm_rn_fechas_folio_hijo
RunHijoHistorial ==
  /\ pc = "hijo"
  /\ LET df_hijo_raw == { Project(r, hijo_cols) : r \in { x \in df_new : TieneHijo(x) } }
         latest_ts == ColMax({ r.fecha_registro : r \in df_new })
         latest_snapshot_hijo ==
           { r \in df_new : r.fecha_registro = latest_ts /\ TieneHijo(r) }
     IN IF df_hijo_raw = {}
          THEN /\ UNCHANGED <<tables, histPadre, histHijo, dimPadre, dimHijo>>
               /\ Finish("ok")
        ELSE IF T_HIJO_HIST \notin tables \/ Fails("suprimidos_hijo")
          THEN \* the query of detect_suprimidos fails
               /\ UNCHANGED <<tables, histPadre, histHijo, dimPadre, dimHijo>>
               /\ Finish("raised")
        ELSE \E df_state_hijo \in
                  IF Fails("state_hijo")
                    THEN {{}}
                    ELSE GetLatestStateFromDb(T_HIJO_HIST, histHijo, GC_HIJO),
                current_db_state \in DistinctOn(Rows(histHijo), GC_HIJO),
                full_state \in GetLatestStateFromDb(T_HIJO_HIST, histHijo, GC_HIJO) :
               LET df_suprimidos_hijo ==
                     DetectSuprimidos(latest_snapshot_hijo, current_db_state,
                                      GC_HIJO, "estado_hijo")
                   df_changes_hijo ==
                     ProcessStatusChanges(df_hijo_raw, df_state_hijo, GC_HIJO, "estado_hijo")
                     (+) SetToBag(SuprimidosHijoFull(df_suprimidos_hijo, full_state))
               IN IF Rows(df_changes_hijo) = {}
                    THEN /\ UNCHANGED <<tables, histPadre, histHijo, dimPadre, dimHijo>>
                         /\ Finish("ok")
                  ELSE IF Fails("append_hijo")
                    THEN /\ UNCHANGED <<tables, histPadre, histHijo, dimPadre, dimHijo>>
                         /\ Finish("raised")
                    ELSE /\ histHijo' = histHijo (+) df_changes_hijo
                         /\ affected_hijos' =
                              { Project(r, {"cliente", "folio_padre", "folio_hijo"}) :
                                  r \in df_hijo_raw }
                              \cup { [cliente |-> s.cliente, folio_padre |-> NULL,
                                      folio_hijo |-> s.folio_hijo] :
                                       s \in df_suprimidos_hijo }
                         /\ UNCHANGED <<tables, histPadre, dimPadre, dimHijo,
                                        df_new, affected_folios, df_final>>
                         /\ Goto("hijo_dim")
  /\ raw' = raw

\* update_dimensions_hijo up to the commit of its DELETE
UpdateDimensionsHijoDelete ==
  /\ pc = "hijo_dim"
  /\ IF T_HIJO_DIM \notin tables
       THEN \* the DELETE fails, the except clause logs it and the insert is skipped
            /\ UNCHANGED <<tables, histPadre, histHijo, dimPadre, dimHijo>>
            /\ Finish("ok")
       ELSE /\ dimHijo' = BagOfSet({ d \in Rows(dimHijo) :
                                       d.folio_hijo \notin
                                         { k.folio_hijo : k \in affected_hijos } }, dimHijo)
            /\ df_final' = UpdateDimensionsHijoRows(affected_hijos)
            /\ UNCHANGED <<tables, histPadre, histHijo, dimPadre, df_new,
                           affected_folios, affected_hijos>>
            /\ Goto("hijo_insert")
  /\ raw' = raw

\* update_dimensions_hijo: df_base.to_sql(..., if_exists="append")
UpdateDimensionsHijoInsert ==
  /\ pc = "hijo_insert"
  /\ dimHijo' = dimHijo (+) df_final
  /\ UNCHANGED <<raw, tables, histPadre, histHijo, dimPadre>>
  /\ Finish("ok")

Next ==
  \/ AddSnapshot
  \/ RunPadreHistorial
  \/ UpdateDimensionsPadreDelete
  \/ UpdateDimensionsPadreInsert
  \/ RunHijoHistorial
  \/ UpdateDimensionsHijoDelete
  \/ UpdateDimensionsHijoInsert

Spec == Init /\ [][Next]_vars

(***************************************************************************)
(* Second specification: the same run over a raw store with two clients,   *)
(* a parent listed with a clean and an "already coded" reference URL, and  *)
(* two faults of the environment: the process is killed between two        *)
(* commits, and the DELETE of update_dimensions_padre raises.              *)
(***************************************************************************)
\* number of snapshot instants of the second specification
MaxT2 == 2

\* (c1, p1) and (c2, p1) were assigned before tracking started; (c1, p3) was
\* assigned at instant 1 and is listed once per child, with a clean URL on
\* the row of h3 and the coded variant on the row of h4.
Catalog2 ==
  { [cliente |-> "c1", folio_padre |-> "p1", folio_hijo |-> "h1",
     fecha_asignacion |-> 0, url_ficha |-> "ficha/p1", ppa_grd |-> "GRD",
     estados_padre |-> {"Asignado"}, estados_hijo |-> {"Aceptado"}],
    [cliente |-> "c2", folio_padre |-> "p1", folio_hijo |-> SinHijo,
     fecha_asignacion |-> 0, url_ficha |-> "ficha/c2p1", ppa_grd |-> NULL,
     estados_padre |-> {"Aceptado"}, estados_hijo |-> {NULL}],
    [cliente |-> "c1", folio_padre |-> "p3", folio_hijo |-> "h3",
     fecha_asignacion |-> 1, url_ficha |-> "ficha/p3", ppa_grd |-> "PPA",
     estados_padre |-> {"Asignado", "Aceptado"}, estados_hijo |-> {"Aceptado"}],
    [cliente |-> "c1", folio_padre |-> "p3", folio_hijo |-> "h4",
     fecha_asignacion |-> 1, url_ficha |-> "ficha/codificado", ppa_grd |-> "PPA",
     estados_padre |-> {"Asignado", "Aceptado"}, estados_hijo |-> {"Aceptado"}] }

RawRowsAt2(t) ==
  UNION { { RawRow(e, ep, eh, t) : ep \in e.estados_padre, eh \in e.estados_hijo } :
            e \in Catalog2 }

Snapshots2(t) == { S \in SUBSET RawRowsAt2(t) : EsSnapshot(S) }

Init2 ==
  /\ raw = {}
  /\ tables = AllTables
  /\ histPadre = EmptyBag
  /\ histHijo = EmptyBag
  /\ dimPadre = EmptyBag
  /\ dimHijo = EmptyBag
  /\ pc = "idle"
  /\ df_new = {}
  /\ affected_folios = {}
  /\ affected_hijos = {}
  /\ df_final = EmptyBag
  /\ outcome = "none"
  /\ despues = [tables |-> AllTables, histPadre |-> EmptyBag, histHijo |-> EmptyBag,
                dimPadre |-> EmptyBag, dimHijo |-> EmptyBag]
  /\ seguidas = 0
  /\ caida = SinCaida
  /\ prestaciones = {}

AddSnapshot2 ==
  /\ pc = "idle"
  /\ NextT <= MaxT2
  /\ \E S \in Snapshots2(NextT) : raw' = raw \cup S
  /\ seguidas' = 0
  /\ UNCHANGED <<tables, histPadre, histHijo, dimPadre, dimHijo, pc, df_new,
                 affected_folios, affected_hijos, df_final, outcome, despues,
                 caida, prestaciones>>

\* the keys that have more records in hist than in antes
Extendidos(hist, antes, group_cols) ==
  { Key(r, group_cols) : r \in { x \in Rows(hist) : Copies(x, hist) > Copies(x, antes) } }

\* The process is killed between two commits of a run: what is committed
\* stays, what the run held in memory is lost.  At most one run is killed.
Kill ==
  /\ pc # "idle"
  /\ caida.donde = "none"
  /\ caida' = [donde |-> pc,
               padres |-> Extendidos(histPadre, despues.histPadre, GC_PADRE),
               hijos |-> Extendidos(histHijo, despues.histHijo, GC_HIJO),
               runs |-> 0]
  /\ pc' = "idle"
  /\ outcome' = "killed"
  /\ df_new' = {}
  /\ affected_folios' = {}
  /\ affected_hijos' = {}
  /\ df_final' = EmptyBag
  /\ seguidas' = 0
  /\ UNCHANGED <<raw, tables, histPadre, histHijo, dimPadre, dimHijo, despues,
                 prestaciones>>

\* update_dimensions_padre when its DELETE raises on an existing table: the
\* except clause logs the error and the insert goes ahead
UpdateDimensionsPadreDeleteFails ==
  /\ pc = "padre_dim"
  /\ T_PADRE_DIM \in tables
  /\ \E latest \in QueryStatic(affected_folios) :
     LET rows == UpdateDimensionsPadreRows(affected_folios, latest)
     IN /\ rows # {}
        /\ df_final' = SetToBag(rows)
  /\ Goto("padre_insert")
  /\ UNCHANGED <<raw, tables, histPadre, histHijo, dimPadre, dimHijo, df_new,
                 affected_folios, affected_hijos>>

Next2 ==
  \/ AddSnapshot2
  \/ RunPadreHistorial
  \/ UpdateDimensionsPadreDelete
  \/ UpdateDimensionsPadreDeleteFails
  \/ UpdateDimensionsPadreInsert
  \/ RunHijoHistorial
  \/ UpdateDimensionsHijoDelete
  \/ UpdateDimensionsHijoInsert
  \/ Kill

Spec2 == Init2 /\ [][Next2]_vars

(***************************************************************************)
(* The formatted code field grd.  A text is a sequence of one-character    *)
(* strings; NULL is a missing description.                                 *)
(***************************************************************************)
\* width of the zero padding
GrdWidth == 6
\* greatest length of a description
MaxDesc == 4
Alfabeto == {":", " ", "7"}
Whitespace == {" "}

\* the texts of length at most n
RECURSIVE Textos(_)
Textos(n) ==
  IF n = 0 THEN {<<>>}
  ELSE Textos(n - 1) \cup { Append(s, c) : s \in { x \in Textos(n - 1) : Len(x) = n - 1 },
                                          c \in Alfabeto }

\* str.split(sep): the segments between all the occurrences of sep
RECURSIVE Split(_, _)
Split(s, sep) ==
  IF \A i \in 1..Len(s) : s[i] # sep THEN <<s>>
  ELSE LET i == CHOOSE j \in 1..Len(s) : s[j] = sep /\ \A m \in 1..(j - 1) : s[m] # sep
       IN <<SubSeq(s, 1, i - 1)>> \o Split(SubSeq(s, i + 1, Len(s)), sep)

\* str.strip(): leading and trailing whitespace removed
RECURSIVE Strip(_)
Strip(s) ==
  IF s = <<>> THEN s
  ELSE IF Head(s) \in Whitespace THEN Strip(Tail(s))
  ELSE IF s[Len(s)] \in Whitespace THEN Strip(SubSeq(s, 1, Len(s) - 1))
  ELSE s

\* str.zfill(width), on texts without a sign
RECURSIVE Zfill(_, _)
Zfill(s, width) == IF Len(s) >= width THEN s ELSE Zfill(<<"0">> \o s, width)

\* np.where(ppa_grd == "GRD",
\*          descripcion.str.split(":").str[1].str.strip().str.zfill(6), None)
FormatGrd(ppa_grd, descripcion) ==
  IF ppa_grd # "GRD" \/ descripcion = NULL THEN NULL
  ELSE LET parts == Split(descripcion, ":")
       IN IF Len(parts) < 2 THEN NULL
          ELSE Zfill(Strip(parts[2]), GrdWidth)

(***************************************************************************)
(* The full rebuild (src/src/fix_ETL.py): the two histories and the two    *)
(* dimensions recomputed from the whole raw store and written with         *)
(* to_sql(if_exists="replace").  The script compares the date of a key's   *)
(* last listing with date.today().                                         *)
(***************************************************************************)
\* snapshot instants per calendar day
PorDia == 2
\* fecha_registro.dt.date: the calendar day of an instant
Dia(t) == (t + PorDia - 1) \div PorDia

\* rows sorted by key and timestamp, those kept whose status differs from
\* the status of the previous row of their key (groupby(...).shift() != ...)
FixChanges(rows, group_cols, state_col, cols) ==
  { Project(r, cols) :
      r \in { x \in rows :
                LET before == { y \in rows : /\ Key(y, group_cols) = Key(x, group_cols)
                                             /\ y.fecha_registro < x.fecha_registro }
                IN \/ before = {}
                   \/ LET prev == CHOOSE p \in before :
                                    \A q \in before : q.fecha_registro <= p.fecha_registro
                      IN prev[state_col] # x[state_col] } }

\* suprimidos_df: per key of group_cols the greatest timestamp of the raw
\* store, kept when its date is not today, with the removed status; the
\* columns of cols the frame does not have are null after the concat
FixSuprimidos(rows, group_cols, state_col, cols, hoy) ==
  LET LastSeen(k) == MaxOf({ r.fecha_registro :
                               r \in { x \in rows : Key(x, group_cols) = k } })
      gone == { r \in rows : /\ r.fecha_registro = LastSeen(Key(r, group_cols))
                             /\ Dia(r.fecha_registro) # hoy }
      own == { group_cols[i] : i \in 1..Len(group_cols) }
  IN { [c \in cols |-> IF c = state_col THEN Suprimido
                       ELSE IF c = "fecha_registro" \/ c \in own THEN r[c]
                       ELSE NULL] : r \in gone }

\* the possible results of drop_duplicates(subset=group_cols): one row per
\* key, the first or the last in the order the database returned the rows
DropDuplicates(rows, group_cols) ==
  PickOne({ { r \in rows : Key(r, group_cols) = Key(x, group_cols) } : x \in rows })

\* the last row of key k after the stable sort by key and timestamp of a
\* history that was concatenated as [status records, removed records]
FixLast(hist, group_cols, state_col, k) ==
  LET top == TopRows(hist, group_cols, k)
  IN IF \E r \in top : r[state_col] = Suprimido
       THEN CHOOSE r \in top : r[state_col] = Suprimido
       ELSE CHOOSE r \in top : TRUE

\* dm_rn_folio_padre_final with its last status: hist is the rebuilt parent
\* history, statics one clean static row per parent key
FixDimPadre(hist, statics) ==
  LET current == { s \in statics : s.fecha_asignacion >= FechaPrimerRegistro(s.cliente) }
      legacy == { s \in statics : s.fecha_asignacion < FechaPrimerRegistro(s.cliente) }
      GroupMin(rows, x) ==
        MinOf({ y.fecha_registro : y \in { z \in rows : PadreKey(z) = PadreKey(x) } })
      accepted == { x \in hist :
                      /\ x.estado_padre \notin {"Asignado"}
                      /\ x.estado_padre \notin
                           {"Folio suprimido", "SIN Prestador",
                            "Rechazo paciente sin consulta", "No acepta tratamiento"} }
      primer_estado_current ==
        { x \in accepted : x.fecha_registro = GroupMin(accepted, x) }
      hist_legacy == { x \in hist : x.folio_padre \in { s.folio_padre : s \in legacy } }
      identificables_keys == { x \in hist_legacy : x.estado_padre = "Asignado" }
      identificables ==
        { x \in hist_legacy : /\ x.cliente \in { y.cliente : y \in identificables_keys }
                              /\ x.folio_padre \in
                                   { y.folio_padre : y \in identificables_keys } }
      primer_estado_legacy ==
        { x \in identificables : /\ x.estado_padre # "Asignado"
                                 /\ x.fecha_registro = GroupMin(identificables, x) }
      Matches(s) ==
        { x \in IF s \in current THEN primer_estado_current ELSE primer_estado_legacy :
            PadreKey(x) = PadreKey(s) }
      Aceptadas(s) ==
        IF Matches(s) # {} THEN { x.fecha_registro : x \in Matches(s) }
        ELSE IF s \in current THEN {NaT} ELSE {s.fecha_asignacion}
      Row(s, aceptada) ==
        LET mine == { h \in hist : PadreKey(h) = PadreKey(s) }
            last == FixLast(hist, GC_PADRE, "estado_padre", PadreKey(s))
        IN [cliente |-> s.cliente, folio_padre |-> s.folio_padre,
            fecha_asignacion |-> s.fecha_asignacion, url_ficha |-> s.url_ficha,
            tipo_seguimiento |-> IF s \in current THEN "current" ELSE "legacy",
            fecha_asignacion_aceptada |-> aceptada,
            ultimo_estado_folio_padre |-> IF mine = {} THEN NULL ELSE last.estado_padre,
            fecha_ultimo_estado_folio_padre |->
              IF mine = {} THEN NaT ELSE last.fecha_registro]
      kept == UNION { { <<s, a>> : a \in Aceptadas(s) } : s \in current \cup legacy }
      N(x) == IF Matches(x[1]) = {} THEN 1
              ELSE Cardinality({ y \in Matches(x[1]) : y.fecha_registro = x[2] })
  IN [ r \in { Row(x[1], x[2]) : x \in kept } |->
         N(CHOOSE x \in kept : Row(x[1], x[2]) = r) ]

\* dm_rn_folio_hijo: hist is the rebuilt child history, dim_padre the rebuilt
\* parent dimension, base one static row per (client, parent, child) link,
\* prest one service-detail row per folio
FixDimHijo(hist, dim_padre, base, prest) ==
  LET Desc(b) ==
        LET m == { p \in prest : p.cliente = b.cliente /\ p.folio = b.folio_hijo }
        IN IF m = {} THEN NULL ELSE (CHOOSE p \in m : TRUE).descripcion
      Padres(b) == { d \in Rows(dim_padre) : PadreKey(d) = PadreKey(b) }
      Tipos(b) == IF Padres(b) = {} THEN {NULL}
                  ELSE { d.tipo_seguimiento : d \in Padres(b) }
      Row(b, tipo) ==
        LET mine == { h \in hist : Key(h, GC_HIJO3) = Key(b, GC_HIJO3) }
            last == FixLast(hist, GC_HIJO3, "estado_hijo", Key(b, GC_HIJO3))
            first == CHOOSE h \in mine :
                       /\ \A q \in mine : h.fecha_registro <= q.fecha_registro
                       /\ \A q \in mine : (q.fecha_registro = h.fecha_registro /\ q # h)
                                          => h.estado_hijo # Suprimido
        IN [cliente |-> b.cliente, folio_padre |-> b.folio_padre,
            folio_hijo |-> b.folio_hijo, ppa_grd |-> b.ppa_grd,
            url_ficha |-> b.url_ficha, descripcion |-> Desc(b),
            tipo_seguimiento |-> tipo,
            ultimo_estado_folio_hijo |-> IF mine = {} THEN NULL ELSE last.estado_hijo,
            fecha_ultimo_estado_folio_hijo |->
              IF mine = {} THEN NaT ELSE last.fecha_registro,
            primer_estado_folio_hijo |-> IF mine = {} THEN NULL ELSE first.estado_hijo,
            fecha_primer_estado_folio_hijo |->
              IF mine = {} THEN NaT ELSE first.fecha_registro,
            grd |-> FormatGrd(b.ppa_grd, Desc(b))]
      kept == UNION { { <<b, t>> : t \in Tipos(b) } : b \in { x \in base : TieneHijo(x) } }
      N(x) == IF Padres(x[1]) = {} THEN 1
              ELSE SumCopies({ d \in Padres(x[1]) : d.tipo_seguimiento = x[2] }, dim_padre)
  IN [ r \in { Row(x[1], x[2]) : x \in kept } |->
         N(CHOOSE x \in kept : Row(x[1], x[2]) = r) ]

(***************************************************************************)
(* Third specification: the full rebuild run as a repair on a raw store    *)
(* that grows, with a service-detail table chosen at the start.            *)
(***************************************************************************)
\* number of snapshot instants of the third specification
MaxT3 == 2

\* (c1, p1) was assigned before tracking started and has the child h1, whose
\* cost classification is GRD; (c1, p2) is assigned at instant 1 and is
\* listed with its child h2, classified PPA, or without child.
Catalog3 ==
  { [cliente |-> "c1", folio_padre |-> "p1", folio_hijo |-> "h1",
     fecha_asignacion |-> 0, url_ficha |-> "ficha/p1", ppa_grd |-> "GRD",
     estados_padre |-> {"Asignado", "Aceptado"}, estados_hijo |-> {"Aceptado"}],
    [cliente |-> "c1", folio_padre |-> "p2", folio_hijo |-> "h2",
     fecha_asignacion |-> 1, url_ficha |-> "ficha/p2", ppa_grd |-> "PPA",
     estados_padre |-> {"Asignado"}, estados_hijo |-> {"Aceptado"}],
    [cliente |-> "c1", folio_padre |-> "p2", folio_hijo |-> SinHijo,
     fecha_asignacion |-> 1, url_ficha |-> "ficha/p2", ppa_grd |-> NULL,
     estados_padre |-> {"Asignado"}, estados_hijo |-> {NULL}] }

RawRowsAt3(t) ==
  UNION { { RawRow(e, ep, eh, t) : ep \in e.estados_padre, eh \in e.estados_hijo } :
            e \in Catalog3 }

Snapshots3(t) == { S \in SUBSET RawRowsAt3(t) : EsSnapshot(S) }

\* the contents rn_detalle_casos_prestaciones can have: no row, or one row
\* for each of the children h1 and h2 with any description
Prestaciones3 ==
  {{}} \cup { { [cliente |-> "c1", folio |-> h, descripcion |-> d] : h \in {"h1", "h2"} } :
                d \in Textos(MaxDesc) }

Init3 ==
  /\ raw = {}
  /\ tables = AllTables
  /\ histPadre = EmptyBag
  /\ histHijo = EmptyBag
  /\ dimPadre = EmptyBag
  /\ dimHijo = EmptyBag
  /\ pc = "idle"
  /\ df_new = {}
  /\ affected_folios = {}
  /\ affected_hijos = {}
  /\ df_final = EmptyBag
  /\ outcome = "none"
  /\ despues = [tables |-> AllTables, histPadre |-> EmptyBag, histHijo |-> EmptyBag,
                dimPadre |-> EmptyBag, dimHijo |-> EmptyBag]
  /\ seguidas = 0
  /\ caida = SinCaida
  /\ prestaciones \in Prestaciones3

AddSnapshot3 ==
  /\ pc = "idle"
  /\ NextT <= MaxT3
  /\ \E S \in Snapshots3(NextT) : raw' = raw \cup S
  /\ seguidas' = 0
  /\ UNCHANGED <<tables, histPadre, histHijo, dimPadre, dimHijo, pc, df_new,
                 affected_folios, affected_hijos, df_final, outcome, despues,
                 caida, prestaciones>>

\* fix_ETL.py, run on the day of the newest snapshot or on the day after it
\* (on an empty raw store the script stops at the first .dt access)
FixETL ==
  /\ pc = "idle"
  /\ raw # {}
  /\ \E hoy \in { Dia(NextT - 1), Dia(NextT - 1) + 1 } :
     \E suprimidos_hijo \in
          DropDuplicates(FixSuprimidos(raw, GC_HIJO3, "estado_hijo", hijo_cols, hoy),
                         GC_HIJO),
        statics \in
          DropDuplicates({ Project(r, static_cols) :
                             r \in { x \in raw : x.url_ficha \notin UrlsCodificado } },
                         GC_PADRE),
        base \in DropDuplicates({ Project(r, base_cols) : r \in raw }, GC_HIJO3),
        prest \in DropDuplicates(prestaciones, <<"folio">>) :
       LET fechas_padre ==
             FixChanges(raw, GC_PADRE, "estado_padre", padre_cols)
             \cup FixSuprimidos(raw, GC_PADRE, "estado_padre", padre_cols, hoy)
           fechas_hijo ==
             FixChanges({ r \in raw : TieneHijo(r) }, GC_HIJO, "estado_hijo", hijo_cols)
             \cup suprimidos_hijo
           folio_padre == FixDimPadre(fechas_padre, statics)
       IN /\ histPadre' = SetToBag(fechas_padre)
          /\ histHijo' = SetToBag(fechas_hijo)
          /\ dimPadre' = folio_padre
          /\ dimHijo' = FixDimHijo(fechas_hijo, folio_padre, base, prest)
  /\ tables' = AllTables
  /\ outcome' = "fix"
  /\ despues' = [tables |-> tables', histPadre |-> histPadre', histHijo |-> histHijo',
                 dimPadre |-> dimPadre', dimHijo |-> dimHijo']
  /\ seguidas' = 0
  /\ UNCHANGED <<raw, pc, df_new, affected_folios, affected_hijos, df_final, caida,
                 prestaciones>>

Next3 ==
  \/ AddSnapshot3
  \/ FixETL

Spec3 == Init3 /\ [][Next3]_vars

(***************************************************************************)
(* Fourth specification: the incremental run over a database whose         *)
(* connection fails once.  One read of persisted state or one history      *)
(* append of the run that is about to execute a step raises; every other   *)
(* operation of the run succeeds.                                          *)
(***************************************************************************)
MaxT4 == 2

Init4 == Init /\ tables = AllTables

AddSnapshot4 ==
  /\ NextT <= MaxT4
  /\ AddSnapshot

\* The connection fails for operation q of the step the run executes next:
\* the parent step issues its operations on a non-empty batch, the child
\* step on a batch that lists a child.
Falla(q) ==
  /\ caida.donde = "none"
  /\ IF q \in {"max_date", "state_padre", "suprimidos_padre", "append_padre"}
       THEN /\ pc = "idle"
            /\ ~NoCopiesLeft
            /\ ExtractNewData(GetMaxDate(T_PADRE_HIST, histPadre)) # {}
       ELSE /\ pc = "hijo"
            /\ \E r \in df_new : TieneHijo(r)
  /\ caida' = [SinCaida EXCEPT !.donde = q]
  /\ UNCHANGED <<raw, tables, histPadre, histHijo, dimPadre, dimHijo, pc, df_new,
                 affected_folios, affected_hijos, df_final, outcome, despues,
                 seguidas, prestaciones>>

ReadFails == \E q \in Consultas : Falla(q)
AppendFails == \E q \in Escrituras : Falla(q)

Next4 ==
  \/ AddSnapshot4
  \/ ReadFails
  \/ AppendFails
  \/ RunPadreHistorial
  \/ UpdateDimensionsPadreDelete
  \/ UpdateDimensionsPadreInsert
  \/ RunHijoHistorial
  \/ UpdateDimensionsHijoDelete
  \/ UpdateDimensionsHijoInsert

Spec4 == Init4 /\ [][Next4]_vars

(***************************************************************************)
(* Vocabulary of the properties.                                           *)
(***************************************************************************)
\* a step that ends a run (AddSnapshot is the only step that changes raw)
RunEnds == pc' = "idle" /\ raw' = raw
\* a step that ends a run by one of its normal returns after writing
RunCompletes == pc # "idle" /\ pc' = "idle" /\ outcome' = "ok"

\* the records of key k in a history
Of(hist, group_cols, k) == { r \in Rows(hist) : Key(r, group_cols) = k }
KeysOf(rows, group_cols) == { Key(r, group_cols) : r \in rows }

\* the last persisted records of key k (one record unless timestamps tie)
LastOf(hist, group_cols, k) == TopRows(Rows(hist), group_cols, k)

\* the keys whose last persisted status is not the removed sentinel
Active(hist, group_cols, state_col) ==
  { k \in KeysOf(Rows(hist), group_cols) :
      \A r \in LastOf(hist, group_cols, k) : r[state_col] # Suprimido }

\* the slice of a batch at its greatest timestamp
LatestSlice(batch) ==
  { r \in batch : r.fecha_registro = ColMax({ x.fecha_registro : x \in batch }) }

\* number of removed records of key k at timestamp t in a history
RemovedAt(hist, group_cols, state_col, k, t) ==
  SumCopies({ r \in Of(hist, group_cols, k) :
                r[state_col] = Suprimido /\ r.fecha_registro = t }, hist)
RemovedOf(hist, group_cols, state_col, k) ==
  SumCopies({ r \in Of(hist, group_cols, k) : r[state_col] = Suprimido }, hist)

\* C1: in a history, no two records of one key that are consecutive in
\* timestamp order carry the same status (a record stored twice is two
\* consecutive records).
Compressed(hist, group_cols, state_col) ==
  /\ \A r \in Rows(hist) : Copies(r, hist) = 1
  /\ \A r, q \in Rows(hist) :
       ( /\ r # q
         /\ Key(r, group_cols) = Key(q, group_cols)
         /\ r[state_col] = q[state_col]
         /\ SortKey(r.fecha_registro) <= SortKey(q.fecha_registro) )
       => \E m \in Of(hist, group_cols, Key(r, group_cols)) \ {r, q} :
            /\ SortKey(r.fecha_registro) <= SortKey(m.fecha_registro)
            /\ SortKey(m.fecha_registro) <= SortKey(q.fecha_registro)

\* C1: compression invariant -- between runs, neither the parent history nor
\* the child history holds two consecutive records of one key with the same
\* status.
C1_CompressionInvariant ==
  pc = "idle" =>
    /\ Compressed(histPadre, GC_PADRE, "estado_padre")
    /\ Compressed(histHijo, GC_HIJO, "estado_hijo")

\* the removed sentinel occurs at most once in the records of key k and
\* only as their last record
SentinelLast(hist, group_cols, state_col) ==
  \A k \in KeysOf(Rows(hist), group_cols) :
    /\ RemovedOf(hist, group_cols, state_col, k) <= 1
    /\ \A r \in Of(hist, group_cols, k) :
         r[state_col] = Suprimido =>
           \A q \in Of(hist, group_cols, k) \ {r} :
             SortKey(q.fecha_registro) < SortKey(r.fecha_registro)

\* C2: sentinel invariant -- between runs, every key's history holds the
\* removed status at most once, and then as its last record.
C2_SentinelInvariant ==
  pc = "idle" =>
    /\ SentinelLast(histPadre, GC_PADRE, "estado_padre")
    /\ SentinelLast(histHijo, GC_HIJO, "estado_hijo")

\* every active key of hist that has no row in the slice of the batch at its
\* greatest timestamp gets exactly one removed record, at that timestamp
SuppressionApplied(hist, hist2, batch, slice, group_cols, state_col) ==
  \A k \in Active(hist, group_cols, state_col) \ KeysOf(slice, group_cols) :
    LET t == ColMax({ r.fecha_registro : r \in batch })
    IN /\ RemovedAt(hist2, group_cols, state_col, k, t)
            = RemovedAt(hist, group_cols, state_col, k, t) + 1
       /\ RemovedOf(hist2, group_cols, state_col, k)
            = RemovedOf(hist, group_cols, state_col, k) + 1

\* C3: suppression rule -- the parent step of a run with a non-empty batch
\* appends one removed record at the batch-maximum timestamp for every
\* active parent key missing from the batch-maximum slice, and the child
\* step does the same for every active child key.
C3_SuppressionRule ==
  [][ /\ (pc = "idle" /\ pc' \in {"padre_dim", "hijo"}) =>
           SuppressionApplied(histPadre, histPadre', df_new', LatestSlice(df_new'),
                              GC_PADRE, "estado_padre")
      /\ (pc = "hijo" /\ pc' # "hijo") =>
           SuppressionApplied(histHijo, histHijo', df_new,
                              { r \in LatestSlice(df_new) : TieneHijo(r) },
                              GC_HIJO, "estado_hijo") ]_vars

\* the key k is listed in the snapshot of instant t
Present(k, t, group_cols) ==
  \E r \in raw : r.fecha_registro = t /\ Key(r, group_cols) = k

\* every key that is listed at t and missing from the snapshot at t + 1,
\* which the batch holds, has a removed record from t + 1 on and not later
\* than its next listing
RemovalInferred(hist, batch, rows, group_cols, state_col) ==
  \A k \in KeysOf(rows, group_cols) : \A t \in 1..MaxT :
    ( /\ Present(k, t, group_cols)
      /\ ~Present(k, t + 1, group_cols)
      /\ \E r \in batch : r.fecha_registro = t + 1 )
    => \E r \in Of(hist, group_cols, k) :
         /\ r[state_col] = Suprimido
         /\ r.fecha_registro >= t + 1
         /\ \A u \in 1..MaxT :
              (u > t + 1 /\ Present(k, u, group_cols)) => r.fecha_registro <= u

\* C4: removal is inferred for every disappearance -- when a run that
\* processed the snapshot at t + 1 completes, every parent and every child
\* listed at t and not at t + 1 has a removed record for it.
C4_RemovalInferred ==
  [][ RunCompletes =>
        /\ RemovalInferred(histPadre', df_new, raw, GC_PADRE, "estado_padre")
        /\ RemovalInferred(histHijo', df_new, { r \in raw : TieneHijo(r) },
                           GC_HIJO, "estado_hijo") ]_vars

\* C5: re-run idempotence -- a run that completes after a completed run, the
\* raw store unchanged between the two, leaves the four tables as the run
\* before it left them.
C5_RerunIdempotent ==
  [][ (RunCompletes /\ seguidas >= 1) =>
        [tables |-> tables', histPadre |-> histPadre', histHijo |-> histHijo',
         dimPadre |-> dimPadre', dimHijo |-> dimHijo'] = despues ]_vars

\* the raw store holds no row newer than the watermark, the greatest
\* timestamp of the parent history
NothingNew ==
  \/ raw = {}
  \/ /\ T_PADRE_HIST \in tables
     /\ \E h \in Rows(histPadre) :
          /\ h.fecha_registro # NaT
          /\ \A r \in raw : r.fecha_registro <= h.fecha_registro

\* C6: no-op run -- a run started while the raw store holds no row newer
\* than the watermark returns at once without raising and leaves the two
\* histories and the two dimensions as they were.
C6_NoOpRun ==
  [][ (pc = "idle" /\ raw' = raw /\ NothingNew) =>
        /\ pc' = "idle"
        /\ outcome' = "noop"
        /\ tables' = tables
        /\ histPadre' = histPadre
        /\ histHijo' = histHijo
        /\ dimPadre' = dimPadre
        /\ dimHijo' = dimHijo ]_vars

\* C6 witness: a no-op run has returned with a watermark, rows in the raw
\* store and rows in the tables it left alone.
C6_Witness ==
  /\ pc = "idle"
  /\ outcome = "noop"
  /\ raw # {}
  /\ NothingNew
  /\ Rows(histHijo) # {}
  /\ Rows(dimPadre) # {}

\* no record of key and timestamp of a batch row that repeats the key's
\* persisted last state is appended
TieKept(hist, hist2, new_rows, group_cols, state_col) ==
  \A n \in new_rows : \A d \in LastOf(hist, group_cols, Key(n, group_cols)) :
    (d.fecha_registro = n.fecha_registro /\ d[state_col] = n[state_col])
    => \A r \in Rows(hist2) :
         ( /\ Key(r, group_cols) = Key(n, group_cols)
           /\ r.fecha_registro = n.fecha_registro )
         => Copies(r, hist2) = Copies(r, hist)

\* C7: tie-break -- when a batch row has the timestamp and the status of its
\* key's persisted last state, the step appends no record of that key at
\* that timestamp.
C7_TieBreak ==
  [][ /\ (pc = "idle" /\ pc' \in {"padre_dim", "hijo"}) =>
           TieKept(histPadre, histPadre', df_new', GC_PADRE, "estado_padre")
      /\ (pc = "hijo" /\ pc' # "hijo") =>
           TieKept(histHijo, histHijo', { r \in df_new : TieneHijo(r) },
                   GC_HIJO, "estado_hijo") ]_vars

\* C8: the detector never re-emits prior state -- no step appends to a
\* history a record that the history already holds.
C8_NoReEmission ==
  [][ /\ \A r \in Rows(histPadre) : Copies(r, histPadre') = Copies(r, histPadre)
      /\ \A r \in Rows(histHijo) : Copies(r, histHijo') = Copies(r, histHijo) ]_vars

\* C9: cold start -- a run over a non-empty raw store that finds the parent
\* or the child history table missing ends by a normal return, and a missing
\* parent history is created with the transitions of the batch.
C9_ColdStart ==
  [][ ( /\ RunEnds
        /\ raw # {}
        /\ (T_PADRE_HIST \notin tables \/ T_HIJO_HIST \notin tables) )
      => /\ outcome' = "ok"
         /\ T_PADRE_HIST \in tables'
         /\ Rows(histPadre') # {} ]_vars

\* C10: atomic replace -- no step leaves a dimension without a row for a key
\* that had one while the replacement computed for it is not yet inserted.
C10_AtomicReplace ==
  [][ /\ pc' = "padre_insert" =>
           \A d \in Rows(dimPadre) :
             PadreKey(d) \in KeysOf(Rows(df_final'), GC_PADRE)
             => PadreKey(d) \in KeysOf(Rows(dimPadre'), GC_PADRE)
      /\ pc' = "hijo_insert" =>
           \A d \in Rows(dimHijo) :
             Key(d, GC_HIJO3) \in KeysOf(Rows(df_final'), GC_HIJO3)
             => Key(d, GC_HIJO3) \in KeysOf(Rows(dimHijo'), GC_HIJO3) ]_vars

\* every key of keys has a parent dimension row that carries the final record
\* of its history
DimPadreAlDia(dim, hist, keys) ==
  \A k \in keys :
    \E d \in Rows(dim) : \E h \in LastOf(hist, GC_PADRE, k) :
      /\ PadreKey(d) = k
      /\ d.ultimo_estado_folio_padre = h.estado_padre
      /\ d.fecha_ultimo_estado_folio_padre = h.fecha_registro

DimHijoAlDia(dim, hist, keys) ==
  \A k \in keys :
    \E d \in Rows(dim) : \E h \in LastOf(hist, GC_HIJO, k) :
      /\ HijoKey(d) = k
      /\ d.ultimo_estado_folio_hijo = h.estado_hijo
      /\ d.fecha_ultimo_estado_folio_hijo = h.fecha_registro

\* a step that ends a run by one of its two normal returns
RunReturns == pc' = "idle" /\ raw' = raw /\ outcome' \in {"ok", "noop"}

\* C11: crash recovery of dimensions -- when the first run that returns
\* after a run was killed between its history append and the end of the
\* dimension rebuild returns, every key whose history the killed run
\* extended has a dimension row that carries the final record of its history.
C11_CrashRecovery ==
  [][ (RunReturns /\ caida.runs = 0) =>
        /\ caida.donde \in {"padre_dim", "padre_insert"} =>
             DimPadreAlDia(dimPadre', histPadre', caida.padres)
        /\ caida.donde \in {"hijo_dim", "hijo_insert"} =>
             DimHijoAlDia(dimHijo', histHijo', caida.hijos) ]_vars

\* C12: re-runs after a partial failure -- when a run was killed after it
\* appended parent transitions and before it appended the child transitions
\* of its batch, then from the second following run that returns on an
\* unchanged raw store, every child listed in the raw store has a record in
\* the child history, as it has in an execution without the failure.
C12_PartialFailure ==
  [][ ( /\ RunReturns
        /\ seguidas >= 1
        /\ caida.donde \in {"padre_dim", "padre_insert", "hijo"}
        /\ caida.padres # {} )
      => \A k \in KeysOf({ r \in raw : TieneHijo(r) }, GC_HIJO) :
           Of(histHijo', GC_HIJO, k) # {} ]_vars

\* the raw rows of parent key k whose reference URL is not the coded variant
StaticRows(k) ==
  { r \in raw : PadreKey(r) = k /\ r.url_ficha \notin UrlsCodificado }

\* the parent keys passed to update_dimensions_padre that have a history and
\* a static-attribute row
Rebuildable(folios) ==
  { k \in KeysOf({ r \in raw : r.folio_padre \in folios }, GC_PADRE) :
      Of(histPadre, GC_PADRE, k) # {} /\ StaticRows(k) # {} }

\* the classification of parent key k: its assignment date against the
\* earliest snapshot timestamp of its client
Clasificacion(k) ==
  LET s == CHOOSE r \in StaticRows(k) : TRUE
      primer == MinOf({ r.fecha_registro : r \in { x \in raw : x.cliente = s.cliente } })
  IN IF s.fecha_asignacion >= primer THEN "current" ELSE "legacy"

\* C13: classification exhaustiveness -- update_dimensions_padre computes,
\* for every key passed to it that has a history and a static-attribute row,
\* exactly one row to write, classified "current" when the assignment date
\* is not earlier than the client's earliest snapshot and "legacy" otherwise.
C13_ClassificationExhaustive ==
  [][ (pc = "padre_dim" /\ pc' \in {"padre_insert", "hijo"}) =>
        \A k \in Rebuildable(affected_folios) :
          \E d \in Rows(df_final') :
            /\ PadreKey(d) = k
            /\ Copies(d, df_final') = 1
            /\ d.tipo_seguimiento = Clasificacion(k)
            /\ \A e \in Rows(df_final') : PadreKey(e) = k => e = d ]_vars

\* the step of update_dimensions_padre that computes the rows to insert
ComputesPadreRows == pc = "padre_dim" /\ pc' = "padre_insert"

\* the timestamp of the first record of key k that is not "Asignado" and
\* comes after the key's first "Asignado" record, NaT if there is none
FirstAfterAsignado(k) ==
  LET mine == Of(histPadre, GC_PADRE, k)
      asignado == ColMin({ h.fecha_registro :
                             h \in { x \in mine : x.estado_padre = "Asignado" } })
  IN ColMin({ h.fecha_registro :
                h \in { x \in mine : /\ x.estado_padre # "Asignado"
                                     /\ x.fecha_registro > asignado } })

HasAsignado(k) == \E h \in Of(histPadre, GC_PADRE, k) : h.estado_padre = "Asignado"

\* C14: accepted date of a legacy parent with an identifiable assignment --
\* the row computed for a legacy key whose own history holds an "Asignado"
\* record followed by a record of another status carries as accepted date
\* the timestamp of the first such record.
C14_LegacyIdentifiable ==
  [][ ComputesPadreRows =>
        \A d \in Rows(df_final') :
          ( /\ d.tipo_seguimiento = "legacy"
            /\ HasAsignado(PadreKey(d))
            /\ FirstAfterAsignado(PadreKey(d)) # NaT )
          => d.fecha_asignacion_aceptada = FirstAfterAsignado(PadreKey(d)) ]_vars

\* C15: accepted date of a legacy parent without an identifiable assignment
\* -- the row computed for a legacy key whose own history holds no
\* "Asignado" record carries the key's static assignment date as accepted
\* date, whatever other keys are rebuilt in the same call.
C15_LegacyNotIdentifiable ==
  [][ ComputesPadreRows =>
        \A d \in Rows(df_final') :
          (d.tipo_seguimiento = "legacy" /\ ~HasAsignado(PadreKey(d)))
          => d.fecha_asignacion_aceptada = d.fecha_asignacion ]_vars

\* the timestamp of the earliest record of key k whose status counts as
\* accepted, NaT (null) if there is none
FirstAccepted(k) ==
  ColMin({ h.fecha_registro :
             h \in { x \in Of(histPadre, GC_PADRE, k) :
                       x.estado_padre \notin
                         {"Asignado", "Folio suprimido", "SIN Prestador",
                          "Rechazo paciente sin consulta", "No acepta tratamiento"} } })

\* C16: accepted date of a current parent -- the row computed for a key
\* classified "current" carries as accepted date the timestamp of the
\* earliest record of the key's history whose status is none of Asignado,
\* Folio suprimido, SIN Prestador, Rechazo paciente sin consulta, No acepta
\* tratamiento, and null when the history has no such record.
C16_CurrentAccepted ==
  [][ ComputesPadreRows =>
        \A d \in Rows(df_final') :
          d.tipo_seguimiento = "current"
          => d.fecha_asignacion_aceptada = FirstAccepted(PadreKey(d)) ]_vars

\* C16 witness: a row is computed for a current key whose history starts
\* with "Asignado" and holds a later accepted record.
C16_Witness ==
  /\ pc = "padre_insert"
  /\ \E d \in Rows(df_final) :
       /\ d.tipo_seguimiento = "current"
       /\ d.fecha_asignacion_aceptada = 2
       /\ \E h \in Of(histPadre, GC_PADRE, PadreKey(d)) :
            h.fecha_registro = 1 /\ h.estado_padre = "Asignado"

\* C17: dimension/history consistency -- after a run that returns without
\* error, every row of the parent dimension carries as last status and
\* last-status timestamp the final record of its key's parent history.
C17_DimensionConsistent ==
  (pc = "idle" /\ outcome \in {"ok", "noop"}) =>
    DimPadreAlDia(dimPadre, histPadre, KeysOf(Rows(dimPadre), GC_PADRE))

\* the snapshot instants written so far
Instants == { r.fecha_registro : r \in raw }

\* the run-length compression of the statuses of key k over the snapshots:
\* the rows of k, on the columns cols, whose status differs from the status
\* of k in the snapshot before (or that are in the first snapshot)
RunLengthCompression(rows, group_cols, state_col, cols, k) ==
  { Project(r, cols) :
      r \in { x \in rows :
                /\ Key(x, group_cols) = k
                /\ \A y \in rows :
                     ( /\ Key(y, group_cols) = k
                       /\ y.fecha_registro = x.fecha_registro - 1 )
                     => y[state_col] # x[state_col] } }

\* the history of every key listed in every snapshot is the run-length
\* compression of its statuses, each record stored once
IsCompressionOf(hist, rows, group_cols, state_col, cols) ==
  \A k \in KeysOf(rows, group_cols) :
    (\A t \in Instants : \E r \in rows : Key(r, group_cols) = k /\ r.fecha_registro = t)
    => /\ Of(hist, group_cols, k) =
            RunLengthCompression(rows, group_cols, state_col, cols, k)
       /\ \A h \in Of(hist, group_cols, k) : Copies(h, hist) = 1

\* C18: run-length compression independent of batching -- with the history
\* tables existing, once a run has returned on the current raw store, the
\* history of every parent and of every child listed in every snapshot is
\* exactly the run-length compression of its status sequence, whatever
\* batches the runs processed.
C18_CompressionAnyBatching ==
  ( /\ pc = "idle"
    /\ outcome \in {"ok", "noop"}
    /\ seguidas >= 1
    /\ {T_PADRE_HIST, T_HIJO_HIST} \subseteq tables )
  => /\ IsCompressionOf(histPadre, raw, GC_PADRE, "estado_padre", padre_cols)
     /\ IsCompressionOf(histHijo, { r \in raw : TieneHijo(r) }, GC_HIJO,
                        "estado_hijo", hijo_cols)

\* table dim holds at most one row per value of the key columns group_cols
UniqueKeys(dim, group_cols) ==
  /\ \A d \in Rows(dim) : Copies(d, dim) = 1
  /\ \A d, e \in Rows(dim) : Key(d, group_cols) = Key(e, group_cols) => d = e

\* C19: dimension key uniqueness -- after any sequence of runs, runs with
\* a failed delete or insert step included, the parent dimension holds at
\* most one row per (client, parent id) and the child dimension at most one
\* row per (client, parent id, child id).
C19_DimensionKeysUnique ==
  pc = "idle" => /\ UniqueKeys(dimPadre, GC_PADRE)
                 /\ UniqueKeys(dimHijo, GC_HIJO3)

\* C20: inherited classification -- every child dimension row that
\* update_dimensions_hijo has rebuilt, for a key of the batch or for a key
\* inferred removed, and whose (client, parent id) has a row in the parent
\* dimension, carries the tracking classification of that parent row.
C20_InheritedClassification ==
  pc = "hijo_insert" =>
    \A b \in Rows(df_final) : \A d \in Rows(dimPadre) :
      PadreKey(d) = PadreKey(b) => b.tipo_seguimiento = d.tipo_seguimiento

\* the positions of a run in its parent branch and in its child branch
PosPadre == {"padre_dim", "padre_insert"}
PosHijo == {"hijo", "hijo_dim", "hijo_insert"}

\* C21: parent-before-child ordering -- in every run the parent history
\* and the parent dimension are written only before the child branch starts,
\* the child history and the child dimension only in the child branch, the
\* child branch starts with no computed parent row left to insert, and the
\* run never goes back from the child branch to the parent branch.
C21_ParentBeforeChild ==
  [][ /\ (histPadre' # histPadre \/ dimPadre' # dimPadre) => pc \in {"idle"} \cup PosPadre
      /\ (histHijo' # histHijo \/ dimHijo' # dimHijo) => pc \in PosHijo
      /\ (pc \in PosPadre /\ pc' \in PosHijo) => pc' = "hijo" /\ df_final' = EmptyBag
      /\ pc \in PosHijo => pc' \in PosHijo \cup {"idle"} ]_vars

\* C21 witness: the child rebuild of a run that has appended parent
\* transitions and rewritten the parent dimension holds rows classified from
\* the parent dimension.
C21_Witness ==
  /\ pc = "hijo_insert"
  /\ histPadre # despues.histPadre
  /\ dimPadre # despues.dimPadre
  /\ \E b \in Rows(df_final) : b.tipo_seguimiento # NULL

\* a step of the full rebuild
FixRuns == pc = "idle" /\ raw' = raw /\ outcome' = "fix"

\* the timestamp of the last snapshot that lists key k
LastSeen(rows, group_cols, k) ==
  MaxOf({ r.fecha_registro : r \in { x \in rows : Key(x, group_cols) = k } })

\* in hist, exactly the keys of rows last listed before the newest snapshot
\* of the raw store have a removed record
RemovedIffGone(hist, rows, group_cols, state_col) ==
  \A k \in KeysOf(rows, group_cols) :
    (\E h \in Of(hist, group_cols, k) : h[state_col] = Suprimido)
    <=> LastSeen(rows, group_cols, k) < MaxOf(Instants)

\* C22: full-rebuild suppression trigger -- the histories the full rebuild
\* writes hold a removed record for a parent key, and for a child key,
\* exactly when the key's last listing is earlier than the newest snapshot
\* of the raw store.
C22_FixSuppressionTrigger ==
  [][ FixRuns =>
        /\ RemovedIffGone(histPadre', raw, GC_PADRE, "estado_padre")
        /\ RemovedIffGone(histHijo', { r \in raw : TieneHijo(r) }, GC_HIJO,
                          "estado_hijo") ]_vars

\* the rows update_dimensions_padre can compute for the parent ids folios
\* on the tables as they are
IncrementalPadreRows(folios) ==
  UNION { UpdateDimensionsPadreRows(folios, latest) : latest \in QueryStatic(folios) }

\* C23: full rebuild and incremental rebuild agree on the parent summary --
\* on the history the full rebuild has written, every row that
\* update_dimensions_padre computes for a key carries the tracking
\* classification and the accepted date of the row the full rebuild wrote
\* for that key.
C23_FixAgreesWithIncremental ==
  outcome = "fix" =>
    \A d \in Rows(dimPadre) :
      \A e \in IncrementalPadreRows({ x.folio_padre : x \in Rows(dimPadre) }) :
        PadreKey(d) = PadreKey(e)
        => /\ d.tipo_seguimiento = e.tipo_seguimiento
           /\ d.fecha_asignacion_aceptada = e.fecha_asignacion_aceptada

\* the text after the first colon of s (s holds a colon)
AfterFirstColon(s) ==
  LET i == CHOOSE j \in 1..Len(s) : s[j] = ":" /\ \A m \in 1..(j - 1) : s[m] # ":"
  IN SubSeq(s, i + 1, Len(s))

HasColon(s) == \E i \in 1..Len(s) : s[i] = ":"

\* C27: formatted code field -- in every child dimension row the field grd
\* is null unless the cost-classification flag is GRD, and for flag GRD and
\* a description that holds a colon it is the text after the first colon of
\* the description, trimmed and left-padded with zeros to width 6.
C27_FormattedCode ==
  outcome = "fix" =>
    \A d \in Rows(dimHijo) :
      /\ d.ppa_grd # "GRD" => d.grd = NULL
      /\ (d.ppa_grd = "GRD" /\ d.descripcion # NULL /\ HasColon(d.descripcion))
         => d.grd = Zfill(Strip(AfterFirstColon(d.descripcion)), 6)


ReadFailed == \E q \in Consultas : Fails(q)

\* C24: a run in which a read of persisted state (watermark, last known
\* state, active set) fails aborts with an error: the step that issues the
\* failed read ends the run as raised and changes neither a history nor a
\* dimension.
C24_ReadFailureFatal ==
  [][ (ReadFailed /\ raw' = raw)
        => /\ pc' = "idle" /\ outcome' = "raised"
           /\ histPadre' = histPadre /\ histHijo' = histHijo
           /\ dimPadre' = dimPadre /\ dimHijo' = dimHijo ]_vars

\* C25: a failure while appending the transitions of one entity type ends
\* only that type's branch: the run whose parent append fails still goes on
\* to its child branch, and a failing child append undoes nothing of the
\* parent branch.
C25_BranchIsolation ==
  [][ /\ (pc = "idle" /\ Fails("append_padre") /\ raw' = raw) => pc' = "hijo"
      /\ (pc = "hijo" /\ Fails("append_hijo"))
            => histPadre' = histPadre /\ dimPadre' = dimPadre ]_vars

\* the timestamps the watermark query sees
Stamps == IF T_PADRE_HIST \in tables
            THEN { h.fecha_registro : h \in Rows(histPadre) } \ {NaT}
            ELSE {}

\* C26: extraction boundary -- the batch a run works on is exactly the raw
\* rows whose timestamp is strictly greater than the watermark (no row at the
\* watermark), and all raw rows when there is no watermark; a run that finds
\* nothing to do had no such row.
C26_ExtractionBoundary ==
  [][ /\ (pc = "idle" /\ pc' # "idle")
            => df_new' = { r \in raw : \A w \in Stamps : r.fecha_registro > w }
      /\ (pc = "idle" /\ pc' = "idle" /\ raw' = raw /\ outcome' = "noop")
            => \A r \in raw : \E w \in Stamps : r.fecha_registro <= w ]_vars

\* C26 witness: a run works on a batch that leaves out raw rows standing
\* exactly at the watermark it started from.
C26_Witness ==
  /\ pc \in {"padre_dim", "hijo"}
  /\ df_new # {}
  /\ \E r \in raw \ df_new :
       /\ r.fecha_registro = ColMax({ h.fecha_registro : h \in Rows(despues.histPadre) })
       /\ \A n \in df_new : n.fecha_registro > r.fecha_registro

\* the rows a new row is compared with: the latest earlier new row of its
\* key, or the persisted last state of the key when it has no earlier new row
Predecessors(n, new_rows, df_db_state, group_cols) ==
  LET earlier == { m \in new_rows : /\ Key(m, group_cols) = Key(n, group_cols)
                                    /\ m.fecha_registro < n.fecha_registro }
  IN IF earlier = {}
       THEN { d \in df_db_state : Key(d, group_cols) = Key(n, group_cols) }
       ELSE { m \in earlier : \A q \in earlier : q.fecha_registro <= m.fecha_registro }

Transitions(new_rows, df_db_state, group_cols, state_col) ==
  { n \in new_rows :
      \A p \in Predecessors(n, new_rows, df_db_state, group_cols) :
         p[state_col] # n[state_col] }

\* every persisted last state is strictly older than every new row
StateOlder(states, new_rows) ==
  \A st \in states : \A d \in st : \A n \in new_rows :
     d.fecha_registro # NaT /\ d.fecha_registro < n.fecha_registro

\* the records a step appended to a history, the removed records aside
Detected(hist2, hist, state_col) ==
  LET added == hist2 (-) hist
  IN BagOfSet({ r \in Rows(added) : r[state_col] # Suprimido }, added)

\* C28: core of the detector -- when every persisted last state is strictly
\* older than every row of the batch, the records a run derives from the
\* batch are exactly, once each, the batch rows whose status differs from the
\* one before them in their key (the persisted last state before a key's
\* first row); the first row of a key without persisted state is a record.
C28_DetectorCore ==
  [][ /\ (pc = "idle" /\ pc' # "idle")
            => LET new_rows == { Project(r, padre_cols) : r \in df_new' }
                   states == GetLatestStateFromDb(T_PADRE_HIST, histPadre, GC_PADRE)
               IN StateOlder(states, new_rows)
                    => \E st \in states :
                          Detected(histPadre', histPadre, "estado_padre")
                            = SetToBag(Transitions(new_rows, st, GC_PADRE, "estado_padre"))
      /\ (pc = "hijo" /\ ~(pc' = "idle" /\ outcome' = "raised"))
            => LET new_rows == { Project(r, hijo_cols) : r \in { x \in df_new : TieneHijo(x) } }
                   states == GetLatestStateFromDb(T_HIJO_HIST, histHijo, GC_HIJO)
               IN StateOlder(states, new_rows)
                    => \E st \in states :
                          Detected(histHijo', histHijo, "estado_hijo")
                            = SetToBag(Transitions(new_rows, st, GC_HIJO, "estado_hijo")) ]_vars

\* C28 witness: over a non-empty parent history a run took a batch of two
\* snapshots and recorded one of its rows but not another.
C28_Witness ==
  /\ pc = "padre_dim"
  /\ Rows(despues.histPadre) # {}
  /\ \E n, m \in df_new :
       /\ n.fecha_registro < m.fecha_registro
       /\ Copies(Project(n, padre_cols), histPadre)
            > Copies(Project(n, padre_cols), despues.histPadre)
       /\ Project(m, padre_cols) \notin Rows(histPadre)

\* C29: full replace never loses a key -- a rebuild of the parent dimension
\* that deleted the rows of the affected parent ids ends with a row for
\* every (client, parent id) key that had one when the run started; the set
\* of keys of the parent dimension never shrinks through a rebuild.
C29_ReplaceKeepsKeys ==
  [][ (pc = "padre_insert" /\ pc' = "hijo" /\ caida.donde = "none")
        => \A d \in Rows(despues.dimPadre) :
              \E e \in Rows(dimPadre') : PadreKey(e) = PadreKey(d) ]_vars

\* no removed record is added between hist and hist2 for a key listed in
\* slice, nor for a key whose last record in hist is a removed one
NoSpuriousRemoval(hist, hist2, slice, group_cols, state_col) ==
  \A k \in KeysOf(Rows(hist2), group_cols) :
    (\/ k \in KeysOf(slice, group_cols)
     \/ /\ LastOf(hist, group_cols, k) # {}
        /\ \A r \in LastOf(hist, group_cols, k) : r[state_col] = Suprimido)
      => RemovedOf(hist2, group_cols, state_col, k)
           = RemovedOf(hist, group_cols, state_col, k)

\* C30: suppression is sound -- no run appends a removed record for a key
\* that has a row in the slice of the batch at its greatest timestamp, nor
\* for a key whose last persisted status is already the removed one.
C30_SuppressionSound ==
  [][ /\ (pc = "idle" /\ pc' # "idle")
            => NoSpuriousRemoval(histPadre, histPadre', LatestSlice(df_new'),
                                 GC_PADRE, "estado_padre")
      /\ pc = "hijo"
            => NoSpuriousRemoval(histHijo, histHijo',
                                 { r \in LatestSlice(df_new) : TieneHijo(r) },
                                 GC_HIJO, "estado_hijo") ]_vars

\* C31: the watermark dominates the persisted state -- after a completed
\* run, every record of the child history and of the parent history has a
\* timestamp less than or equal to the greatest timestamp of the parent
\* history, so the next batch is strictly later than every persisted row.
C31_WatermarkDominates ==
  (pc = "idle" /\ outcome = "ok")
    => \A r \in Rows(histPadre) \cup Rows(histHijo) :
          r.fecha_registro # NaT
            => \E w \in Stamps : r.fecha_registro <= w
====
